---- MODULE Spec2Model ----
(***************************************************************************)
(* State-machine model of the calendar client's session core:              *)
(*   - StorageService  (src/unnamed/part_006 and the older copy in         *)
(*                      src/src/store/slices/eventsSlice.ts:141-253)       *)
(*   - ApiService      (src/unnamed/part_007, src/src/services/api.ts)     *)
(*   - the three session controllers: the useAuth hook                     *)
(*     (src/unnamed/part_002), AuthProvider                                *)
(*     (src/src/hooks/useCalendars.ts:285-424) and the redux authSlice     *)
(*     (src/src/store/slices/authSlice.ts)                                 *)
(*   - useGoals.toggleGoalCompletion (src/src/hooks/useCalendars.ts)       *)
(*   - the goal form and the goal methods of ApiService with the persisted *)
(*     goal list (src/src/services/api.ts:169-358)                         *)
(*   - useCalendars.toggleCalendarVisibility                               *)
(*   - AppNavigator and LoginScreen, each with its own session state       *)
(*     (src/src/navigation/AppNavigator.tsx, src/unnamed/part_005)         *)
(*                                                                         *)
(* The repository holds several generations of the same files.  Which      *)
(* generation runs is fixed when the app is built, so the model draws the  *)
(* generation of each component in Init (storageImpl, authImpl, apiImpl)   *)
(* and never changes it.                                                   *)
(***************************************************************************)
EXTENDS Integers, Sequences, FiniteSets, TLC

\* ---------------------------------------------------------------- bounds
\* number of data requests (GET /api/goals/ ...) the screens issue
MaxReqs == 2
\* number of token strings the server mints (login: two, refresh: one)
MaxTokens == 5
\* number of token strings the logins use: two logins, which leaves a token
\* for a refresh call answered after the second login
MaxLoginTokens == 4
\* number of toggleGoalCompletion calls
MaxToggles == 3
\* number of times the goal form is saved for one goal
MaxUpdates == 1
\* number of toggleGoalCompletion calls made next to the goal form
MaxStoreToggles == 1
\* number of toggleCalendarVisibility calls
MaxVisToggles == 3
\* number of createGoal / updateGoal / deleteGoal calls of ApiService
MaxGoalOps == 3

VARIABLES
    storageImpl,   \* "validated" (part_006) | "legacy" (eventsSlice.ts:141-253)
    authImpl,      \* "useAuth" | "AuthProvider" | "authSlice"
    apiImpl,       \* "real" (part_007) | "mock" (api.ts)
    storage,       \* AsyncStorage: key -> stored string, or Null
    req,           \* the requests that go through the axios client
    auth,          \* controller state {user, isAuthenticated, isLoading, error}
    op,            \* the controller operation in progress
    minted,        \* how many token strings the server has minted
    goals,         \* useGoals: the local goal list, goal id -> goal
    goalsError,    \* useGoals: the error state of the hook, "" for null
    tog,           \* the toggleGoalCompletion calls made so far
    remote,        \* the goals as the backend holds them
    calendars,     \* useCalendars: the local list, calendar id -> is_visible
    calendarsError,\* useCalendars: the error state of the hook, "" for null
    vis,           \* the toggleCalendarVisibility calls made so far
    gop,           \* the createGoal / updateGoal / deleteGoal calls of ApiService
    nav            \* the session state the app navigator reads

sessionVars == <<storageImpl, authImpl, apiImpl, storage, req, auth, op, minted>>

goalVars == <<goals, goalsError, tog, remote>>

calendarVars == <<calendars, calendarsError, vis>>

persistVars == <<gop>>

navVars == <<nav>>

vars == <<storageImpl, authImpl, apiImpl, storage, req, auth, op, minted,
          goals, goalsError, tog, remote, calendars, calendarsError, vis, gop,
          nav>>

\* ------------------------------------------------------- JavaScript values
\* A value is null, a string or a user object.  A string remembers how many
\* times JSON.stringify was applied to the text it started from (q), and what
\* that text was: a token (tok > 0) or a user object (id, email).  Of a user
\* object only id and email are kept, the two fields the code tests; "" stands
\* for a missing or falsy field.
Null == [t |-> "null", q |-> 0, tok |-> 0, id |-> "", email |-> ""]

Tok(n) == [t |-> "str", q |-> 0, tok |-> n, id |-> "", email |-> ""]

UserObj(i, e) == [t |-> "obj", q |-> 0, tok |-> 0, id |-> i, email |-> e]

\* JSON.stringify: an object becomes its JSON text, a string gains one more
\* level of quoting.
JSON_stringify(v) == [v EXCEPT !.t = "str", !.q = @ + 1]

\* JSON.parse of a stored text (part_006:27): one level of quoting less; the
\* text of a user object becomes the object again.  A text that is no JSON
\* (and null) gives null: getItem returns null for both.
JSON_parse(v) ==
    IF v.q = 0 THEN Null
    ELSE [v EXCEPT !.q = @ - 1,
                   !.t = IF v.q = 1 /\ v.tok = 0 THEN "obj" ELSE "str"]

\* JavaScript truthiness of the values above (every string here is non-empty)
Truthy(v) == v.t # "null"

\* v.email / v.id: defined on a user object only; on a string (and on null,
\* where the callers guard with `user &&`) the property is undefined, i.e. falsy
PropEmail(v) == IF v.t = "obj" THEN v.email ELSE ""

PropId(v) == IF v.t = "obj" THEN v.id ELSE ""

\* ------------------------------------------------------------ storage keys
\* STORAGE_KEYS of types/index.ts:120-124
ACCESS_TOKEN == "@calendar_app/access_token"

REFRESH_TOKEN == "@calendar_app/refresh_token"

USER_DATA == "@calendar_app/user_data"

STORAGE_KEYS == {ACCESS_TOKEN, REFRESH_TOKEN, USER_DATA}

EmptyStorage == [k \in STORAGE_KEYS |-> Null]

\* ---------------------------------------------------------- StorageService
\* setItem: AsyncStorage.setItem(key, JSON.stringify(value))
setItem(st, key, value) == [st EXCEPT ![key] = JSON_stringify(value)]

\* getItem.  The class body declares getItem twice: the generic one that
\* JSON.parses (part_006:20-34) and, further down, the public one that returns
\* the stored string as it is (part_006:143-150).  A later method of a class
\* body replaces an earlier one of the same name, so every this.getItem(...)
\* of the class runs the later one: the stored string comes back unparsed.
\* The older copy of the class has the same two declarations
\* (eventsSlice.ts:158-166 and 233-240).
getItem(st, key) == st[key]

\* removeItem: AsyncStorage.removeItem(key); errors are logged and swallowed
removeItem(st, key) == [st EXCEPT ![key] = Null]

\* saveTokens: two sequential writes.  w says how far the writes get:
\* "ok", "fail1" (the first setItem throws) or "fail2" (the second throws).
saveTokens(st, access, refresh, w) ==
    IF w = "fail1" THEN st
    ELSE IF w = "fail2" THEN setItem(st, ACCESS_TOKEN, access)
    ELSE setItem(setItem(st, ACCESS_TOKEN, access), REFRESH_TOKEN, refresh)

WriteOutcomes == {"ok", "fail1", "fail2"}

getAccessToken(st) == getItem(st, ACCESS_TOKEN)

getRefreshToken(st) == getItem(st, REFRESH_TOKEN)

clearTokens(st) == removeItem(removeItem(st, ACCESS_TOKEN), REFRESH_TOKEN)

\* saveUser: one write; ok = FALSE when setItem throws
saveUser(st, user, ok) == IF ok THEN setItem(st, USER_DATA, user) ELSE st

clearUser(st) == removeItem(st, USER_DATA)

\* clearAll that leaves the user record
clearAll_TokensOnly(st) == clearTokens(st)

clearAll(st) == clearUser(clearTokens(st))

\* getUser of part_006:72-87: an existing record without email or id is
\* removed and null is returned.  <<returned value, storage afterwards>>
getUserValidated(st) ==
    LET user == getItem(st, USER_DATA)
    IN  IF Truthy(user) /\ (PropEmail(user) = "" \/ PropId(user) = "")
        THEN <<Null, clearUser(st)>>
        ELSE <<user, st>>

\* getUser of eventsSlice.ts:200-202: no validation
getUserLegacy(st) == <<getItem(st, USER_DATA), st>>

getUser(st) ==
    IF storageImpl = "validated" THEN getUserValidated(st) ELSE getUserLegacy(st)

\* isLoggedInValidated without the clearAll of part_006:124-128
isLoggedInValidated_NoClear(st) ==
    LET accessToken == getAccessToken(st)
        refreshToken == getRefreshToken(st)
        gu == getUserValidated(st)
        user == gu[1]
        hasTokens == Truthy(accessToken) /\ Truthy(refreshToken)
        hasValidUser == Truthy(user) /\ PropEmail(user) # "" /\ PropId(user) # ""
    IN  <<hasTokens /\ hasValidUser, gu[2]>>

\* isLoggedIn of part_006:104-131.  <<returned boolean, storage afterwards>>
isLoggedInValidated(st) ==
    LET accessToken == getAccessToken(st)
        refreshToken == getRefreshToken(st)
        gu == getUserValidated(st)
        user == gu[1]
        hasTokens == Truthy(accessToken) /\ Truthy(refreshToken)
        hasValidUser == Truthy(user) /\ PropEmail(user) # "" /\ PropId(user) # ""
    IN  IF hasTokens /\ ~hasValidUser
        THEN <<FALSE, clearAll(gu[2])>>
        ELSE <<hasTokens /\ hasValidUser, gu[2]>>

\* isLoggedIn of eventsSlice.ts:217-221: the two tokens only
isLoggedInLegacy(st) ==
    <<Truthy(getAccessToken(st)) /\ Truthy(getRefreshToken(st)), st>>

isLoggedIn(st) ==
    IF storageImpl = "validated" THEN isLoggedInValidated(st) ELSE isLoggedInLegacy(st)

\* ------------------------------------------------------------- ApiService
DataReqs == 1..MaxReqs

\* the POSTs of login() and logout() go through the same axios client
LoginReq == MaxReqs + 1

LogoutReq == MaxReqs + 2

Reqs == DataReqs \cup {LoginReq, LogoutReq}

\* the failures a response can carry: 401, or anything else ("e500" stands for
\* every other status and for a request without response: the interceptor
\* tests error.response?.status === 401 and nothing more)
ErrorStatuses == {"e401", "e500"}

\* a request that has not been made.  hdr: the Authorization credential;
\* retry: originalRequest._retry; rtok: the refresh token the interceptor read;
\* result: what the caller's promise settled with; sends/refreshes count the
\* times the request was put on the wire and the refresh calls made for it.
\* A settled request keeps its flags and counters; its config (hdr, rtok) is
\* no longer used by anything and is dropped.
NewReq == [pc |-> "new", retry |-> FALSE, hdr |-> Null, rtok |-> Null,
           result |-> "none", sends |-> 0, refreshes |-> 0]

\* request interceptor (part_007:29-37): attach the stored access token, if any
requestInterceptor(st, hdr) ==
    LET token == getAccessToken(st)
    IN  IF Truthy(token) THEN token ELSE hdr

\* this.client(config): run the request interceptor and put the request on the wire
clientSend(st, rq) ==
    [rq EXCEPT !.pc = "sent", !.hdr = requestInterceptor(st, rq.hdr), !.sends = @ + 1]

\* main screens are mounted (AppNavigator.tsx:93-106, part_001:120-132)
MainShown ==
    /\ ~auth.isLoading
    /\ Truthy(auth.user)
    /\ (authImpl = "useAuth" \/ auth.isAuthenticated)

\* a screen calls apiService.get/post/... (part_007:90-113)
Issue(r) ==
    /\ r \in DataReqs
    /\ req[r].pc = "new"
    /\ MainShown
    /\ req' = [req EXCEPT ![r] = clientSend(storage, NewReq)]
    /\ UNCHANGED goalVars
    /\ UNCHANGED calendarVars
    /\ UNCHANGED persistVars
    /\ UNCHANGED navVars
    /\ UNCHANGED <<storageImpl, authImpl, apiImpl, storage, auth, op, minted>>

\* the promise of a request settles with result
settle(rq, result) ==
    [rq EXCEPT !.pc = "done", !.result = result, !.hdr = Null, !.rtok = Null]

\* response interceptor, success handler (part_007:46-49)
ResponseOk(r) ==
    /\ req[r].pc = "sent"
    /\ req' = [req EXCEPT ![r] = settle(req[r], "ok")]
    /\ UNCHANGED goalVars
    /\ UNCHANGED calendarVars
    /\ UNCHANGED persistVars
    /\ UNCHANGED navVars
    /\ UNCHANGED <<storageImpl, authImpl, apiImpl, storage, auth, op, minted>>

\* responseError without the _retry test: every 401 starts a refresh
responseError_IgnoresRetryFlag(rq, status, st) ==
    IF status = "e401"
    THEN IF Truthy(getRefreshToken(st))
         THEN [rq EXCEPT !.retry = TRUE, !.pc = "refreshing",
                         !.rtok = getRefreshToken(st), !.refreshes = @ + 1]
         ELSE settle([rq EXCEPT !.retry = TRUE], status)
    ELSE settle(rq, status)

\* responseError without the test of the refresh token: every first 401
\* starts a refresh
responseError_IgnoresRefreshToken(rq, status, st) ==
    IF status = "e401" /\ ~rq.retry
    THEN [rq EXCEPT !.retry = TRUE, !.pc = "refreshing",
                    !.rtok = getRefreshToken(st), !.refreshes = @ + 1]
    ELSE settle(rq, status)

\* response interceptor, error handler up to the refresh call (part_007:50-63, 83-84)
responseError(rq, status, st) ==
    IF status = "e401" /\ ~rq.retry
    THEN IF Truthy(getRefreshToken(st))
         THEN [rq EXCEPT !.retry = TRUE, !.pc = "refreshing",
                         !.rtok = getRefreshToken(st), !.refreshes = @ + 1]
         ELSE settle([rq EXCEPT !.retry = TRUE], status)
    ELSE settle(rq, status)

\* ResponseError whose catch also takes the failure of the re-issued request
\* (return await this.client(originalRequest)) and clears the store
ResponseError_ClearsOnRetryFailure(r) ==
    /\ req[r].pc = "sent"
    /\ \E status \in ErrorStatuses :
          req' = [req EXCEPT ![r] = responseError(req[r], status, storage)]
    /\ storage' = IF req[r].sends = 2 THEN clearAll(storage) ELSE storage
    /\ UNCHANGED goalVars
    /\ UNCHANGED calendarVars
    /\ UNCHANGED persistVars
    /\ UNCHANGED navVars
    /\ UNCHANGED <<storageImpl, authImpl, apiImpl, auth, op, minted>>

ResponseError(r) ==
    /\ req[r].pc = "sent"
    /\ \E status \in ErrorStatuses :
          req' = [req EXCEPT ![r] = responseError(req[r], status, storage)]
    /\ UNCHANGED goalVars
    /\ UNCHANGED calendarVars
    /\ UNCHANGED persistVars
    /\ UNCHANGED navVars
    /\ UNCHANGED <<storageImpl, authImpl, apiImpl, storage, auth, op, minted>>

\* the refresh call answered {access}: save, set the header, re-issue
\* (part_007:65-73); a failing save lands in the catch (part_007:75-84).
\* <<request afterwards, storage afterwards>>
refreshResolved(rq, st, newAccessToken, w) ==
    LET saved == saveTokens(st, newAccessToken, rq.rtok, w)
    IN  IF w = "ok"
        THEN <<clientSend(saved, [rq EXCEPT !.hdr = newAccessToken]), saved>>
        ELSE <<settle(rq, "e401"), clearAll(saved)>>

RefreshResolved(r) ==
    /\ req[r].pc = "refreshing"
    /\ minted < MaxTokens
    /\ \E w \in WriteOutcomes :
          LET res == refreshResolved(req[r], storage, Tok(minted + 1), w)
          IN  /\ req' = [req EXCEPT ![r] = res[1]]
              /\ storage' = res[2]
    /\ minted' = minted + 1
    /\ UNCHANGED goalVars
    /\ UNCHANGED calendarVars
    /\ UNCHANGED persistVars
    /\ UNCHANGED navVars
    /\ UNCHANGED <<storageImpl, authImpl, apiImpl, auth, op>>

\* the refresh call failed: clear the session, reject with the original
\* error (part_007:75-84).  <<request afterwards, storage afterwards>>
refreshRejected(rq, st) ==
    <<settle(rq, "e401"), clearAll(st)>>

RefreshRejected(r) ==
    /\ req[r].pc = "refreshing"
    /\ LET res == refreshRejected(req[r], storage)
       IN  /\ req' = [req EXCEPT ![r] = res[1]]
           /\ storage' = res[2]
    /\ UNCHANGED goalVars
    /\ UNCHANGED calendarVars
    /\ UNCHANGED persistVars
    /\ UNCHANGED navVars
    /\ UNCHANGED <<storageImpl, authImpl, apiImpl, auth, op, minted>>

\* ------------------------------------------------- login() and logout()
\* error.message of a rejected request
Message(result) ==
    CASE result = "e401" -> "Request failed with status code 401"
      [] OTHER -> "Request failed with status code 500"

\* the user records a login response can carry
LoginUsers == {UserObj("1", "a@b.com"), UserObj("1", "")}

\* response.data.detail of a failed login, "" when the body has none
ServerDetails == {"", "No active account"}

\* ApiService.login of part_007:116-130, from the settled POST on: the
\* response {access, refresh, user} is saved; a failing write throws.
\* [ok, user, message, storage]
loginReal(st, rq, m, u, w, uw) ==
    IF rq.result # "ok"
    THEN [ok |-> FALSE, user |-> Null, message |-> Message(rq.result), storage |-> st]
    ELSE LET saved == saveTokens(st, Tok(m + 1), Tok(m + 2), w)
         IN  IF w # "ok" \/ ~uw
             THEN [ok |-> FALSE, user |-> Null, message |-> "Failed to store",
                   storage |-> saved]
             ELSE [ok |-> TRUE, user |-> u, message |-> "",
                   storage |-> saveUser(saved, u, TRUE)]

\* ApiService.login of api.ts:116-149: no request; a mock response for the
\* given email; a failing write is logged and the response returned anyway.
loginMock(st, m, w, uw) ==
    LET user == UserObj("1", "a@b.com")
        saved == saveTokens(st, Tok(m + 1), Tok(m + 2), w)
    IN  [ok |-> TRUE, user |-> user, message |-> "",
         storage |-> IF w = "ok" THEN saveUser(saved, user, uw) ELSE saved]

\* ----------------------------------------------------- session controllers
IdleOp == [kind |-> "none", pc |-> "idle", net |-> FALSE, surfaced |-> ""]

\* checkAuthStatus: the pending part (part_002:16, useCalendars.ts:293,
\* authSlice.ts:135-137).  Its only caller is the effect that runs when the
\* controller mounts (part_002:87-89, useCalendars.ts:409-411, part_001:106-108).
CheckBegin ==
    /\ op.kind = "none"
    /\ auth' = [auth EXCEPT !.isLoading = TRUE]
    /\ op' = [IdleOp EXCEPT !.kind = "check", !.pc = "run"]
    /\ UNCHANGED goalVars
    /\ UNCHANGED calendarVars
    /\ UNCHANGED persistVars
    /\ UNCHANGED navVars
    /\ UNCHANGED <<storageImpl, authImpl, apiImpl, storage, req, minted>>

\* checkAuthStatus of the useAuth hook (part_002:14-34).  <<auth, storage>>
checkAuthStatusHook(a, st) ==
    LET li == isLoggedIn(st)
        gu == getUser(li[2])
    IN  IF li[1]
        THEN IF Truthy(gu[1])
             THEN <<[a EXCEPT !.user = gu[1], !.isAuthenticated = TRUE,
                              !.isLoading = FALSE], gu[2]>>
             ELSE <<[a EXCEPT !.isLoading = FALSE], gu[2]>>
        ELSE <<[a EXCEPT !.isLoading = FALSE], li[2]>>

\* checkAuthStatus of AuthProvider (useCalendars.ts:291-327).  <<auth, storage>>
checkAuthStatusProvider(a, st) ==
    LET li == isLoggedIn(st)
        gu == getUser(li[2])
        storedUser == gu[1]
    IN  IF li[1]
        THEN IF Truthy(storedUser) /\ PropEmail(storedUser) # "" /\ PropId(storedUser) # ""
             THEN <<[a EXCEPT !.user = storedUser, !.isAuthenticated = TRUE,
                              !.isLoading = FALSE], gu[2]>>
             ELSE <<[a EXCEPT !.user = Null, !.isAuthenticated = FALSE,
                              !.isLoading = FALSE], clearAll(gu[2])>>
        ELSE <<[a EXCEPT !.user = Null, !.isAuthenticated = FALSE,
                         !.isLoading = FALSE], li[2]>>

\* checkAuthStatus thunk and its reducers (authSlice.ts:56-85, 138-149)
checkAuthStatusSlice(a, st) ==
    LET li == isLoggedIn(st)
        gu == getUser(li[2])
        storedUser == gu[1]
    IN  IF li[1]
        THEN IF Truthy(storedUser) /\ PropEmail(storedUser) # "" /\ PropId(storedUser) # ""
             THEN <<[a EXCEPT !.user = storedUser, !.isAuthenticated = TRUE,
                              !.isLoading = FALSE, !.error = ""], gu[2]>>
             ELSE <<[a EXCEPT !.user = Null, !.isAuthenticated = FALSE,
                              !.isLoading = FALSE, !.error = ""], clearAll(gu[2])>>
        ELSE <<[a EXCEPT !.user = Null, !.isAuthenticated = FALSE,
                         !.isLoading = FALSE, !.error = ""], li[2]>>

checkAuthStatus(a, st) ==
    CASE authImpl = "useAuth" -> checkAuthStatusHook(a, st)
      [] authImpl = "AuthProvider" -> checkAuthStatusProvider(a, st)
      [] OTHER -> checkAuthStatusSlice(a, st)

CheckEnd ==
    /\ op.kind = "check" /\ op.pc = "run"
    /\ LET res == checkAuthStatus(auth, storage)
       IN  /\ auth' = res[1]
           /\ storage' = res[2]
    /\ op' = [op EXCEPT !.pc = "idle"]
    /\ UNCHANGED goalVars
    /\ UNCHANGED calendarVars
    /\ UNCHANGED persistVars
    /\ UNCHANGED navVars
    /\ UNCHANGED <<storageImpl, authImpl, apiImpl, req, minted>>

\* what login does to the storage before it calls apiService.login:
\* clearAll in AuthProvider (useCalendars.ts:336) and in the thunk
\* (authSlice.ts:28), nothing in the useAuth hook (part_002:37-42)
loginClear(st) ==
    IF authImpl = "useAuth" THEN st ELSE clearAll(st)

\* login up to the POST (part_002:39-42, useCalendars.ts:332-339,
\* authSlice.ts:24-31 and 102-105)
LoginBegin ==
    /\ op.pc = "idle"
    /\ ~auth.isLoading /\ ~MainShown
    /\ minted + 2 <= MaxLoginTokens
    /\ auth' = [auth EXCEPT !.isLoading = TRUE,
                            !.error = IF authImpl = "authSlice" THEN "" ELSE @]
    /\ storage' = loginClear(storage)
    /\ req' = IF apiImpl = "real"
              THEN [req EXCEPT ![LoginReq] = clientSend(storage', NewReq)]
              ELSE req
    /\ op' = [IdleOp EXCEPT !.kind = "login", !.pc = "wait", !.net = (apiImpl = "real")]
    /\ UNCHANGED goalVars
    /\ UNCHANGED calendarVars
    /\ UNCHANGED persistVars
    /\ UNCHANGED navVars
    /\ UNCHANGED <<storageImpl, authImpl, apiImpl, minted>>

\* useAuth.login after apiService.login settled (part_002:43-52).
\* <<auth, message thrown to the caller>>
loginSettledHook(a, res, detail) ==
    IF res.ok
    THEN <<[a EXCEPT !.user = res.user, !.isAuthenticated = TRUE, !.isLoading = FALSE], "">>
    ELSE <<[a EXCEPT !.isLoading = FALSE],
           IF detail # "" THEN detail ELSE "Login failed">>

\* AuthProvider.login after apiService.login settled (useCalendars.ts:341-358)
loginSettledProvider(a, res) ==
    IF res.ok /\ Truthy(res.user) /\ PropEmail(res.user) # ""
    THEN <<[a EXCEPT !.user = res.user, !.isAuthenticated = TRUE, !.isLoading = FALSE], "">>
    ELSE <<[a EXCEPT !.user = Null, !.isAuthenticated = FALSE, !.isLoading = FALSE],
           IF res.ok THEN "Invalid user data received from server" ELSE res.message>>

\* loginUser thunk and its reducers (authSlice.ts:31-38, 106-117)
loginSettledSlice(a, res) ==
    IF res.ok
    THEN <<[a EXCEPT !.user = res.user, !.isAuthenticated = TRUE, !.isLoading = FALSE,
                     !.error = ""], "">>
    ELSE <<[a EXCEPT !.user = Null, !.isAuthenticated = FALSE, !.isLoading = FALSE,
                     !.error = res.message], res.message>>

loginSettled(a, res, detail) ==
    CASE authImpl = "useAuth" -> loginSettledHook(a, res, detail)
      [] authImpl = "AuthProvider" -> loginSettledProvider(a, res)
      [] OTHER -> loginSettledSlice(a, res)

LoginEnd ==
    /\ op.kind = "login" /\ op.pc = "wait"
    /\ op.net => req[LoginReq].pc = "done"
    /\ \E u \in LoginUsers, w \in WriteOutcomes, uw \in BOOLEAN, d \in ServerDetails :
          LET res == IF apiImpl = "real"
                     THEN loginReal(storage, req[LoginReq], minted, u, w, uw)
                     ELSE loginMock(storage, minted, w, uw)
              detail == IF op.net /\ req[LoginReq].result \in {"e401", "e500"}
                        THEN d ELSE ""
              out == loginSettled(auth, res, detail)
          IN  /\ storage' = res.storage
              /\ auth' = out[1]
              /\ op' = [op EXCEPT !.pc = "idle", !.surfaced = out[2]]
              /\ minted' = IF apiImpl = "mock" \/ req[LoginReq].result = "ok"
                           THEN minted + 2 ELSE minted
    /\ UNCHANGED goalVars
    /\ UNCHANGED calendarVars
    /\ UNCHANGED persistVars
    /\ UNCHANGED navVars
    /\ UNCHANGED <<storageImpl, authImpl, apiImpl, req>>

\* logout up to the POST (part_007:132-137; part_002:58-61,
\* useCalendars.ts:364-368, authSlice.ts:119-121)
LogoutBegin ==
    /\ op.pc = "idle"
    /\ MainShown
    /\ auth' = [auth EXCEPT !.isLoading = TRUE]
    /\ LET refreshToken == getRefreshToken(storage)
       IN  /\ req' = IF Truthy(refreshToken)
                     THEN [req EXCEPT ![LogoutReq] = clientSend(storage, NewReq)]
                     ELSE req
           /\ op' = [IdleOp EXCEPT !.kind = "logout", !.pc = "wait",
                                   !.net = Truthy(refreshToken)]
    /\ UNCHANGED goalVars
    /\ UNCHANGED calendarVars
    /\ UNCHANGED persistVars
    /\ UNCHANGED navVars
    /\ UNCHANGED <<storageImpl, authImpl, apiImpl, storage, minted>>

\* logoutFinally removing the tokens only
logoutFinally_TokensOnly(st) == clearTokens(st)

\* ApiService.logout from the settled POST on: the finally block
\* (part_007:138-142).  Storage afterwards.
logoutFinally(st) == clearAll(st)

\* logoutSettled that leaves isLoading as it is
logoutSettled_StaysLoading(a) ==
    [a EXCEPT !.user = Null, !.isAuthenticated = FALSE,
              !.error = IF authImpl = "authSlice" THEN "" ELSE @]

\* the controller after apiService.logout returned (part_002:62-70,
\* useCalendars.ts:370-382, authSlice.ts:122-127)
logoutSettled(a) ==
    [a EXCEPT !.user = Null, !.isAuthenticated = FALSE, !.isLoading = FALSE,
              !.error = IF authImpl = "authSlice" THEN "" ELSE @]

LogoutEnd ==
    /\ op.kind = "logout" /\ op.pc = "wait"
    /\ op.net => req[LogoutReq].pc = "done"
    /\ storage' = logoutFinally(storage)
    /\ auth' = logoutSettled(auth)
    /\ op' = [op EXCEPT !.pc = "idle"]
    /\ UNCHANGED goalVars
    /\ UNCHANGED calendarVars
    /\ UNCHANGED persistVars
    /\ UNCHANGED navVars
    /\ UNCHANGED <<storageImpl, authImpl, apiImpl, req, minted>>

\* ------------------------------------------------------------- useGoals
GoalIds == {"g1", "g2"}

TogIds == 1..MaxToggles

\* target_value?: number, when the field is absent (types/index.ts:31)
Undefined == -1

\* a goal: the fields of types/index.ts:24-42 that the hook and the goal
\* methods of ApiService read or write.  updated_at counts the updates made
\* to the goal (each new Date() is later than the one before).
Goal(isCompleted, status, target, current, progress, updatedAt) ==
    [is_completed |-> isCompleted, status |-> status, target_value |-> target,
     current_value |-> current, progress_percentage |-> progress,
     updated_at |-> updatedAt]

\* the second default goal of getGoals (api.ts:197-214): target_value 20,
\* current_value 5, progress_percentage 25
DefaultGoal == Goal(FALSE, "active", 20, 5, 25, 0)

\* the goals a load can deliver: is_completed with its status
LoadedGoals ==
    {[DefaultGoal EXCEPT !.is_completed = FALSE, !.status = "active"],
     [DefaultGoal EXCEPT !.is_completed = TRUE, !.status = "completed"],
     [DefaultGoal EXCEPT !.is_completed = FALSE, !.status = "paused"],
     [DefaultGoal EXCEPT !.is_completed = FALSE, !.status = "cancelled"]}

\* a call that has not been made.  goalId, newCompletionState: the constants
\* of the call's closure; prev: the goal as it was when the call started
\* (kept for the properties, the code does not keep it)
NewTog == [pc |-> "new", goalId |-> "g1", newCompletionState |-> FALSE,
           prev |-> DefaultGoal]

\* optimisticUpdate that flips is_completed and leaves the status
optimisticUpdate_KeepsStatus(gs, goalId, newCompletionState) ==
    [gs EXCEPT ![goalId] = [@ EXCEPT !.is_completed = newCompletionState]]

\* the instant update (useCalendars.ts:198-206)
optimisticUpdate(gs, goalId, newCompletionState) ==
    [gs EXCEPT ![goalId] =
        [@ EXCEPT !.is_completed = newCompletionState,
                  !.status = IF newCompletionState THEN "completed" ELSE "active"]]

\* the revert of the catch block (useCalendars.ts:219-227)
revertUpdate(gs, goalId, newCompletionState) ==
    [gs EXCEPT ![goalId] =
        [@ EXCEPT !.is_completed = ~newCompletionState,
                  !.status = IF ~newCompletionState THEN "completed" ELSE "active"]]

\* JavaScript truthiness of an optional number: undefined and 0 are falsy
NumTruthy(n) == n # Undefined /\ n # 0

\* Math.min(100, (current_value / target_value) * 100) (api.ts:310, 268).
\* The values the model draws divide exactly, so the floating-point quotient
\* is the integer one.
Percentage(current, target) ==
    LET p == (current * 100) \div target
    IN  IF p < 100 THEN p ELSE 100

\* {...goal, ...updates}: a field the updates carry replaces the goal's
spread(updates, field, old) ==
    IF field \in DOMAIN updates THEN updates[field] ELSE old

\* updatedGoal without the recomputation of api.ts:308-311
updatedGoal_NoRecompute(goal, updates) ==
    Goal(spread(updates, "is_completed", goal.is_completed),
         spread(updates, "status", goal.status),
         spread(updates, "target_value", goal.target_value),
         spread(updates, "current_value", goal.current_value),
         spread(updates, "progress_percentage", goal.progress_percentage),
         goal.updated_at + 1)

\* ApiService.updateGoal of api.ts:288-325, the stored goal after the update:
\* merge, stamp updated_at, recompute progress_percentage when target_value
\* is truthy
updatedGoal(goal, updates) ==
    LET target == spread(updates, "target_value", goal.target_value)
        current == spread(updates, "current_value", goal.current_value)
        progress == spread(updates, "progress_percentage", goal.progress_percentage)
    IN  Goal(spread(updates, "is_completed", goal.is_completed),
             spread(updates, "status", goal.status),
             target, current,
             IF NumTruthy(target) THEN Percentage(current, target) ELSE progress,
             goal.updated_at + 1)

\* ApiService.updateGoal: the persisted list ('mock_goals') after the update
updateGoalApi(rem, goalId, updates) ==
    [rem EXCEPT ![goalId] = updatedGoal(@, updates)]

\* ApiService.toggleGoalCompletion -> updateGoal (api.ts:352-358,
\* part_007:170-176): an update of {is_completed, status}
toggleGoalCompletionApi(rem, goalId, isCompleted) ==
    updateGoalApi(rem, goalId,
                  [is_completed |-> isCompleted,
                   status |-> IF isCompleted THEN "completed" ELSE "active"])

\* what the goal form hands to onSave (EventForm.tsx:518-531): the status of
\* the dropdown (three of its four values are drawn), target_value parsed or
\* undefined, current_value parsed or 0, and no is_completed
FormStatuses == {"active", "completed", "paused"}

FormTargets == {Undefined, 0, 20}

FormCurrents == {0, 5, 30}

FormData ==
    [status : FormStatuses, target_value : FormTargets, current_value : FormCurrents]

\* the id createGoal gives the new goal (Date.now().toString(), api.ts:253)
NewGoalId == "g2"

\* ApiService.createGoal of api.ts:244-286: the goal it builds
newGoal(goalData) ==
    LET target == spread(goalData, "target_value", Undefined)
        current == spread(goalData, "current_value", 0)
    IN  Goal(spread(goalData, "is_completed", FALSE),
             spread(goalData, "status", "active"),
             target, current,
             IF NumTruthy(target) /\ NumTruthy(current)
             THEN Percentage(current, target) ELSE 0,
             0)

\* [...list, newGoal]
append(list, id, goal) ==
    [g \in DOMAIN list \cup {id} |-> IF g = id THEN goal ELSE list[g]]

\* useGoals.createGoal, the call resolved (useCalendars.ts:128-137, 143-145;
\* api.ts:244-281)
CreateGoalResolved(goalData) ==
    /\ NewGoalId \notin DOMAIN remote
    /\ remote' = append(remote, NewGoalId, newGoal(goalData))
    /\ goals' = append(goals, NewGoalId, newGoal(goalData))
    /\ goalsError' = ""
    /\ UNCHANGED tog
    /\ UNCHANGED sessionVars
    /\ UNCHANGED calendarVars
    /\ UNCHANGED persistVars
    /\ UNCHANGED navVars

\* useGoals.createGoal, the call rejected (useCalendars.ts:138-142;
\* api.ts:282-285: saveItem threw)
CreateGoalRejected ==
    /\ NewGoalId \notin DOMAIN remote
    /\ goalsError' = "Failed to create goal"
    /\ UNCHANGED <<goals, tog, remote>>
    /\ UNCHANGED sessionVars
    /\ UNCHANGED calendarVars
    /\ UNCHANGED persistVars
    /\ UNCHANGED navVars

\* useGoals.updateGoal, the call resolved (useCalendars.ts:149-158): the
\* local goal is replaced by the goal the call returned
UpdateGoalResolved(goalId, updates) ==
    /\ goalId \in DOMAIN remote
    /\ remote[goalId].updated_at < MaxUpdates
    /\ remote' = updateGoalApi(remote, goalId, updates)
    /\ goals' = [goals EXCEPT ![goalId] = remote'[goalId]]
    /\ UNCHANGED <<goalsError, tog>>
    /\ UNCHANGED sessionVars
    /\ UNCHANGED calendarVars
    /\ UNCHANGED persistVars
    /\ UNCHANGED navVars

\* useGoals.updateGoal, the call rejected (useCalendars.ts:159-164;
\* api.ts:321-324)
UpdateGoalRejected(goalId) ==
    /\ goalId \in DOMAIN remote
    /\ goalsError' = "Failed to update goal"
    /\ UNCHANGED <<goals, tog, remote>>
    /\ UNCHANGED sessionVars
    /\ UNCHANGED calendarVars
    /\ UNCHANGED persistVars
    /\ UNCHANGED navVars

\* toggleGoalCompletion up to its await (useCalendars.ts:190-212): the goal
\* is read from the rendered list, the list is updated and the call is made.
\* The hook is re-rendered after every state update, so the rendered list is
\* the current one.  Calls are numbered in the order they are made.
ToggleStart(k, goalId) ==
    /\ tog[k].pc = "new"
    /\ goalId \in DOMAIN goals
    /\ \A j \in TogIds : j < k => tog[j].pc # "new"
    /\ LET goal == goals[goalId]
           newCompletionState == ~goal.is_completed
       IN  /\ goals' = optimisticUpdate(goals, goalId, newCompletionState)
           /\ tog' = [tog EXCEPT ![k] = [pc |-> "flight", goalId |-> goalId,
                                         newCompletionState |-> newCompletionState,
                                         prev |-> goal]]
    /\ UNCHANGED <<goalsError, remote>>
    /\ UNCHANGED sessionVars
    /\ UNCHANGED calendarVars
    /\ UNCHANGED persistVars
    /\ UNCHANGED navVars

\* the call resolved (useCalendars.ts:212-214): the returned goal is dropped
ToggleResolved(k) ==
    /\ tog[k].pc = "flight"
    /\ remote' = toggleGoalCompletionApi(remote, tog[k].goalId, tog[k].newCompletionState)
    /\ tog' = [tog EXCEPT ![k].pc = "resolved"]
    /\ UNCHANGED <<goals, goalsError>>
    /\ UNCHANGED sessionVars
    /\ UNCHANGED calendarVars
    /\ UNCHANGED persistVars
    /\ UNCHANGED navVars

\* the call rejected (useCalendars.ts:215-230)
ToggleRejected(k) ==
    /\ tog[k].pc = "flight"
    /\ goals' = revertUpdate(goals, tog[k].goalId, tog[k].newCompletionState)
    /\ goalsError' = "Failed to update goal completion"
    /\ tog' = [tog EXCEPT ![k].pc = "rejected"]
    /\ UNCHANGED remote
    /\ UNCHANGED sessionVars
    /\ UNCHANGED calendarVars
    /\ UNCHANGED persistVars
    /\ UNCHANGED navVars

\* ------------------------------------------ the navigator and the login screen
\* AppNavigator reads its session state from its own call of the useAuth hook
\* (AppNavigator.tsx:8, 91) or from the redux store (part_001:103); the login
\* screen calls the useAuth hook itself (part_005:422, 428).  The hook keeps
\* its state in useState (part_002:8-11), so every caller has a state of its
\* own.  nav is the state the navigator reads, auth the state of the hook of
\* the login screen.
NavImpls == {"useAuth", "authSlice"}

\* the navigator before its mount effect ran (part_002:9-11,
\* authSlice.ts initialState)
NewNav(impl) ==
    [impl |-> impl, pc |-> "mount", user |-> Null, isAuthenticated |-> FALSE,
     isLoading |-> (impl = "useAuth"), error |-> ""]

\* the navigator in the specifications that do not follow it
NavIdle == nav = NewNav("useAuth")

\* the navigator shows the login screen (AppNavigator.tsx:93-131,
\* part_001:120-147)
LoginShown ==
    /\ nav.pc = "idle"
    /\ ~nav.isLoading
    /\ ~(Truthy(nav.user) /\ (nav.impl = "useAuth" \/ nav.isAuthenticated))

\* the mount effect of the navigator starts checkAuthStatus (part_002:87-89,
\* 16; part_001:106-108, authSlice.ts:135-137)
NavCheckBegin ==
    /\ nav.pc = "mount"
    /\ nav' = [nav EXCEPT !.pc = "check", !.isLoading = TRUE]
    /\ UNCHANGED <<sessionVars, goalVars, calendarVars, persistVars>>

\* checkAuthStatus of the navigator ends (part_002:14-34, authSlice.ts:56-85
\* and 138-149)
NavCheckEnd ==
    /\ nav.pc = "check"
    /\ LET res == IF nav.impl = "useAuth"
                  THEN checkAuthStatusHook(nav, storage)
                  ELSE checkAuthStatusSlice(nav, storage)
       IN  /\ nav' = [res[1] EXCEPT !.pc = "idle"]
           /\ storage' = res[2]
    /\ UNCHANGED <<storageImpl, authImpl, apiImpl, req, auth, op, minted>>
    /\ UNCHANGED <<goalVars, calendarVars, persistVars>>

\* the mount effect of the hook of the login screen (part_002:87-89)
ScreenCheckBegin == LoginShown /\ CheckBegin

ScreenCheckEnd == LoginShown /\ CheckEnd

\* LoginScreen.handleLogin (part_005:430-442) up to the POST, and after
\* apiService.login settled
ScreenLoginBegin == LoginShown /\ LoginBegin

ScreenLoginEnd == LoginShown /\ LoginEnd

\* ------------------------------------- ApiService: the persisted goal list
\* createGoal, updateGoal and deleteGoal of api.ts:244-349 read the whole list
\* ('mock_goals', through getGoals), await, and write the whole list back.
\* The list is the variable remote.
GopIds == 1..MaxGoalOps

GopKinds == {"create", "update", "delete"}

\* the updates the calls carry: the one of toggleGoalCompletion (api.ts:352-358)
\* and a save of the goal form
GopUpdates ==
    {[is_completed |-> TRUE, status |-> "completed"],
     [status |-> "paused", target_value |-> 20, current_value |-> 5]}

\* a call that has not been made.  existingGoals: the list the call read
NewGop == [pc |-> "new", kind |-> "update", goalId |-> "g1",
           updates |-> [status |-> "paused", target_value |-> 20, current_value |-> 5],
           existingGoals |-> [g \in {"g1"} |-> DefaultGoal]]

PersistIdle == gop = [k \in GopIds |-> NewGop]

\* existingGoals.filter(goal => goal.id !== goalId)
filterOut(list, goalId) == [g \in DOMAIN list \ {goalId} |-> list[g]]

\* the list a call writes, computed from the list it read (api.ts:274,
\* 302-314, 335)
updatedGoals(c) ==
    CASE c.kind = "create" -> append(c.existingGoals, c.goalId, newGoal(c.updates))
      [] c.kind = "update" -> updateGoalApi(c.existingGoals, c.goalId, c.updates)
      [] OTHER -> filterOut(c.existingGoals, c.goalId)

\* 'Goal not found' (api.ts:297-299, 337-339)
goalNotFound(c) ==
    c.kind \in {"update", "delete"} /\ c.goalId \notin DOMAIN c.existingGoals

\* a call up to its second await: const existingGoals = await this.getGoals()
\* (api.ts:249, 293, 332).  A created goal gets a fresh id.
GopRead(k, kind, goalId, updates) ==
    /\ gop[k].pc = "new"
    /\ \A j \in GopIds : j < k => gop[j].pc # "new"
    /\ kind = "create"
         => /\ goalId = NewGoalId /\ NewGoalId \notin DOMAIN remote
            /\ \A j \in GopIds : gop[j].pc = "new" \/ gop[j].kind # "create"
    /\ gop' = [gop EXCEPT ![k] = [pc |-> "read", kind |-> kind, goalId |-> goalId,
                                  updates |-> updates, existingGoals |-> remote]]
    /\ UNCHANGED <<sessionVars, goalVars, calendarVars>>
    /\ UNCHANGED navVars

\* await storageService.saveItem('mock_goals', ...) succeeded; the call
\* resolves (api.ts:277-281, 317-320, 342-344)
GopWrite(k) ==
    /\ gop[k].pc = "read"
    /\ ~goalNotFound(gop[k])
    /\ remote' = updatedGoals(gop[k])
    /\ gop' = [gop EXCEPT ![k].pc = "resolved"]
    /\ UNCHANGED <<sessionVars, calendarVars, goals, goalsError, tog>>
    /\ UNCHANGED navVars

\* the goal was not in the list the call read, or saveItem threw; the call
\* rejects (api.ts:282-285, 321-324, 345-348)
GopReject(k) ==
    /\ gop[k].pc = "read"
    /\ gop' = [gop EXCEPT ![k].pc = "rejected"]
    /\ UNCHANGED <<sessionVars, goalVars, calendarVars>>
    /\ UNCHANGED navVars

\* ---------------------------------------------------------- useCalendars
CalendarIds == {"1", "2"}

VisIds == 1..MaxVisToggles

\* is_visible of a calendar: the Calendar type has no such field
\* (types/index.ts:44-56) and the calendars of getCalendars (api.ts:361-380)
\* carry none, so a loaded calendar may have it undefined
Visibilities == {"undefined", "false", "true"}

\* !is_visible
notVisible(v) == IF v = "true" THEN "false" ELSE "true"

\* a call that has not been made; prev: is_visible when the call started
\* (kept for the properties, the code does not keep it)
NewVis == [pc |-> "new", calendarId |-> "1", newVisibility |-> "false",
           prev |-> "undefined"]

\* the calendars and toggles of a session in which no calendar is toggled
CalendarsIdle ==
    /\ calendars = [c \in CalendarIds |-> "undefined"]
    /\ calendarsError = ""
    /\ vis = [k \in VisIds |-> NewVis]

\* toggleCalendarVisibility up to its await (useCalendars.ts:53-68)
VisToggleStart(k, calendarId) ==
    /\ vis[k].pc = "new"
    /\ \A j \in VisIds : j < k => vis[j].pc # "new"
    /\ LET newVisibility == notVisible(calendars[calendarId])
       IN  /\ calendars' = [calendars EXCEPT ![calendarId] = newVisibility]
           /\ vis' = [vis EXCEPT ![k] = [pc |-> "flight", calendarId |-> calendarId,
                                         newVisibility |-> newVisibility,
                                         prev |-> calendars[calendarId]]]
    /\ UNCHANGED calendarsError
    /\ UNCHANGED <<sessionVars, goalVars>>
    /\ UNCHANGED persistVars
    /\ UNCHANGED navVars

\* the call resolved (useCalendars.ts:68-69)
VisToggleResolved(k) ==
    /\ vis[k].pc = "flight"
    /\ vis' = [vis EXCEPT ![k].pc = "resolved"]
    /\ UNCHANGED <<calendars, calendarsError>>
    /\ UNCHANGED <<sessionVars, goalVars>>
    /\ UNCHANGED persistVars
    /\ UNCHANGED navVars

\* the call rejected (useCalendars.ts:70-78): the revert, and a console.error
VisToggleRejected(k) ==
    /\ vis[k].pc = "flight"
    /\ calendars' = [calendars EXCEPT
                        ![vis[k].calendarId] = notVisible(vis[k].newVisibility)]
    /\ vis' = [vis EXCEPT ![k].pc = "rejected"]
    /\ UNCHANGED calendarsError
    /\ UNCHANGED <<sessionVars, goalVars>>
    /\ UNCHANGED persistVars
    /\ UNCHANGED navVars

\* --------------------------------------------------------- specification
\* what a previous run of the app can have left in AsyncStorage: nothing, a
\* whole session, or the tokens of a login whose saveUser failed
PersistedSession ==
    saveUser(saveTokens(EmptyStorage, Tok(1), Tok(2), "ok"), UserObj("1", "a@b.com"), TRUE)

PartialSession == saveTokens(EmptyStorage, Tok(1), Tok(2), "ok")

Init ==
    /\ storageImpl \in {"validated", "legacy"}
    /\ authImpl \in {"useAuth", "AuthProvider", "authSlice"}
    /\ apiImpl \in {"real", "mock"}
    /\ \/ storage = EmptyStorage /\ minted = 0
       \/ storage \in {PersistedSession, PartialSession} /\ minted = 2
    /\ req = [r \in Reqs |-> NewReq]
    /\ auth = [user |-> Null, isAuthenticated |-> FALSE,
               isLoading |-> (authImpl # "authSlice"), error |-> ""]
    /\ op = IdleOp
    /\ goals = [g \in GoalIds |-> DefaultGoal]
    /\ goalsError = ""
    /\ tog = [k \in TogIds |-> NewTog]
    /\ remote = goals
    /\ PersistIdle
    /\ NavIdle
    /\ CalendarsIdle

Next ==
    \/ \E r \in Reqs : Issue(r)
    \/ \E r \in Reqs : ResponseOk(r)
    \/ \E r \in Reqs : ResponseError(r)
    \/ \E r \in Reqs : RefreshResolved(r)
    \/ \E r \in Reqs : RefreshRejected(r)
    \/ CheckBegin
    \/ CheckEnd
    \/ LoginBegin
    \/ LoginEnd
    \/ LogoutBegin
    \/ LogoutEnd

Spec == Init /\ [][Next]_vars

\* every storage call returns: a controller operation whose awaits have
\* settled runs on
StorageReturns == CheckEnd \/ LoginEnd \/ LogoutEnd

\* every network call responds or times out: a request of the axios client
\* (timeout: API_CONFIG.TIMEOUT, part_007:20-26) settles with a response or
\* with the timeout error, and so does the refresh call
NetworkResponds ==
    \E r \in Reqs :
        ResponseOk(r) \/ ResponseError(r) \/ RefreshResolved(r) \/ RefreshRejected(r)

\* as long as a call is pending, one of the pending calls returns
SpecLive == Init /\ [][Next]_vars /\ WF_vars(StorageReturns \/ NetworkResponds)

\* the goals screen on its own: the list as loadGoals delivered it, and the
\* toggles the user makes
InitGoals ==
    /\ storageImpl = "validated" /\ authImpl = "AuthProvider" /\ apiImpl = "real"
    /\ storage = PersistedSession /\ minted = 2
    /\ req = [r \in Reqs |-> NewReq]
    /\ auth = [user |-> UserObj("1", "a@b.com"), isAuthenticated |-> TRUE,
               isLoading |-> FALSE, error |-> ""]
    /\ op = IdleOp
    /\ goals \in [GoalIds -> LoadedGoals]
    /\ goalsError = ""
    /\ tog = [k \in TogIds |-> NewTog]
    /\ remote = goals
    /\ PersistIdle
    /\ NavIdle
    /\ CalendarsIdle

NextGoals ==
    \/ \E k \in TogIds, g \in GoalIds : ToggleStart(k, g)
    \/ \E k \in TogIds : ToggleResolved(k)
    \/ \E k \in TogIds : ToggleRejected(k)

SpecGoals == InitGoals /\ [][NextGoals]_vars

\* the goals screen with the goal form: one stored goal, goals created and
\* edited through the form, and toggles
InitStore ==
    /\ storageImpl = "validated" /\ authImpl = "AuthProvider" /\ apiImpl = "mock"
    /\ storage = PersistedSession /\ minted = 2
    /\ req = [r \in Reqs |-> NewReq]
    /\ auth = [user |-> UserObj("1", "a@b.com"), isAuthenticated |-> TRUE,
               isLoading |-> FALSE, error |-> ""]
    /\ op = IdleOp
    /\ goals = [g \in {"g1"} |-> DefaultGoal]
    /\ goalsError = ""
    /\ tog = [k \in TogIds |-> NewTog]
    /\ remote = goals
    /\ PersistIdle
    /\ NavIdle
    /\ CalendarsIdle

NextStore ==
    \/ \E goalData \in FormData : CreateGoalResolved(goalData)
    \/ CreateGoalRejected
    \/ \E g \in GoalIds, updates \in FormData : UpdateGoalResolved(g, updates)
    \/ \E g \in GoalIds : UpdateGoalRejected(g)
    \/ \E k \in 1..MaxStoreToggles, g \in GoalIds : ToggleStart(k, g)
    \/ \E k \in TogIds : ToggleResolved(k)
    \/ \E k \in TogIds : ToggleRejected(k)

SpecStore == InitStore /\ [][NextStore]_vars

\* the calendars screen on its own: the list as loadCalendars delivered it,
\* and the toggles the user makes
InitCalendars ==
    /\ storageImpl = "validated" /\ authImpl = "AuthProvider" /\ apiImpl = "real"
    /\ storage = PersistedSession /\ minted = 2
    /\ req = [r \in Reqs |-> NewReq]
    /\ auth = [user |-> UserObj("1", "a@b.com"), isAuthenticated |-> TRUE,
               isLoading |-> FALSE, error |-> ""]
    /\ op = IdleOp
    /\ goals = [g \in GoalIds |-> DefaultGoal]
    /\ goalsError = ""
    /\ tog = [k \in TogIds |-> NewTog]
    /\ remote = goals
    /\ PersistIdle
    /\ NavIdle
    /\ calendars \in [CalendarIds -> Visibilities]
    /\ calendarsError = ""
    /\ vis = [k \in VisIds |-> NewVis]

NextCalendars ==
    \/ \E k \in VisIds, c \in CalendarIds : VisToggleStart(k, c)
    \/ \E k \in VisIds : VisToggleResolved(k)
    \/ \E k \in VisIds : VisToggleRejected(k)

SpecCalendars == InitCalendars /\ [][NextCalendars]_vars

\* the goal methods of ApiService on their own: the persisted list holds one
\* or two goals, and the screens call createGoal, updateGoal and deleteGoal
InitPersist ==
    /\ storageImpl = "validated" /\ authImpl = "AuthProvider" /\ apiImpl = "mock"
    /\ storage = PersistedSession /\ minted = 2
    /\ req = [r \in Reqs |-> NewReq]
    /\ auth = [user |-> UserObj("1", "a@b.com"), isAuthenticated |-> TRUE,
               isLoading |-> FALSE, error |-> ""]
    /\ op = IdleOp
    /\ \E ids \in {{"g1"}, GoalIds} : goals = [g \in ids |-> DefaultGoal]
    /\ goalsError = ""
    /\ tog = [k \in TogIds |-> NewTog]
    /\ remote = goals
    /\ CalendarsIdle
    /\ PersistIdle
    /\ NavIdle

NextPersist ==
    \/ \E k \in GopIds, kind \in GopKinds, g \in GoalIds, updates \in GopUpdates :
          GopRead(k, kind, g, updates)
    \/ \E k \in GopIds : GopWrite(k)
    \/ \E k \in GopIds : GopReject(k)

SpecPersist == InitPersist /\ [][NextPersist]_vars

\* the start of the app up to the login: the navigator mounts, shows the
\* login screen, and the user logs in
InitNav ==
    /\ storageImpl \in {"validated", "legacy"}
    /\ authImpl = "useAuth"
    /\ apiImpl \in {"real", "mock"}
    /\ \/ storage = EmptyStorage /\ minted = 0
       \/ storage \in {PersistedSession, PartialSession} /\ minted = 2
    /\ req = [r \in Reqs |-> NewReq]
    /\ auth = [user |-> Null, isAuthenticated |-> FALSE, isLoading |-> TRUE,
               error |-> ""]
    /\ op = IdleOp
    /\ goals = [g \in GoalIds |-> DefaultGoal]
    /\ goalsError = ""
    /\ tog = [k \in TogIds |-> NewTog]
    /\ remote = goals
    /\ CalendarsIdle
    /\ PersistIdle
    /\ \E impl \in NavImpls : nav = NewNav(impl)

NextNav ==
    \/ NavCheckBegin
    \/ NavCheckEnd
    \/ ScreenCheckBegin
    \/ ScreenCheckEnd
    \/ ScreenLoginBegin
    \/ ScreenLoginEnd
    \/ ResponseOk(LoginReq)
    \/ ResponseError(LoginReq)
    \/ RefreshResolved(LoginReq)
    \/ RefreshRejected(LoginReq)

\* every step that can be taken is taken: the effects run, the calls return
SpecNav == InitNav /\ [][NextNav]_vars /\ WF_vars(NextNav)

\* ================================================================ claims

\* ---- C1 (Spec).  For every request, the interceptor starts at most one
\* token refresh and puts the request on the wire at most twice; a second
\* send happens only after a refresh, and while the refresh is running the
\* request has been sent once.  A 401 on the re-issued request can therefore
\* only settle the request.
C1_RetryAtMostOnce ==
    \A r \in Reqs :
        /\ req[r].refreshes <= 1
        /\ req[r].sends <= 2
        /\ (req[r].sends = 2 => req[r].refreshes = 1 /\ req[r].retry)
        /\ (req[r].pc = "refreshing" => req[r].sends = 1)

\* a re-issued request that received a second 401 and settled with it
C1_Witness ==
    \E r \in DataReqs :
        req[r].pc = "done" /\ req[r].sends = 2 /\ req[r].result = "e401"

\* ---- C2 (SpecGoals).  The rollback of a failed toggle never overwrites the
\* value written by a later toggle of the same goal: when a call rejects
\* after a later call for the same goal was made, the local is_completed
\* stays as it is.
C2_NoStaleRollback ==
    [][\A k \in TogIds :
          (/\ tog[k].pc = "flight" /\ tog'[k].pc = "rejected"
           /\ \E j \in TogIds : j > k /\ tog[j].pc # "new"
                                /\ tog[j].goalId = tog[k].goalId)
          => goals'[tog[k].goalId].is_completed = goals[tog[k].goalId].is_completed
      ]_vars

\* ---- C3 (Spec).  In every reachable state of the session store,
\* isLoggedIn() returns true if and only if both tokens are stored and
\* getUser() returns a record with non-empty id and email.
C3_IsLoggedInIffTokensAndUser ==
    LET user == getUser(storage)[1]
    IN  isLoggedIn(storage)[1] <=>
            /\ storage[ACCESS_TOKEN] # Null
            /\ storage[REFRESH_TOKEN] # Null
            /\ Truthy(user) /\ PropId(user) # "" /\ PropEmail(user) # ""

\* a request whose refresh failed: a refresh was started, the request was not
\* re-issued, and it has settled
FailedRefresh(r) ==
    req[r].pc = "done" /\ req[r].refreshes = 1 /\ req[r].sends = 1

\* ---- C4 (Spec).  When the refresh of a request fails, the three storage
\* keys are removed, the request is not re-issued, and the caller receives a
\* 'session expired' error: an error that no failure without a failed refresh
\* produces.  (The refresh call was rejected: the server minted no token.)
C4_SessionExpiredDistinct ==
    [][\A r \in Reqs :
          (req[r].pc = "refreshing" /\ req'[r].pc = "done" /\ minted' = minted)
          => /\ storage' = EmptyStorage
             /\ ~isLoggedIn(storage')[1]
             /\ req'[r].sends = req[r].sends
             /\ \A r2 \in Reqs \ {r} :
                   (req'[r2].pc = "done" /\ req'[r2].result # "ok" /\ ~FailedRefresh(r2))
                   => req'[r2].result # req'[r].result
      ]_vars

\* What the catch block does do when the refresh of a request fails (the
\* refresh call, or the save of its result): the three storage keys are
\* removed, isLoggedIn() is false afterwards, the request is not re-issued,
\* and the caller receives the original 401 error.
RefreshFailureClearsSession ==
    [][\A r \in Reqs :
          (req[r].pc = "refreshing" /\ req'[r].pc = "done")
          => /\ storage' = EmptyStorage
             /\ ~isLoggedIn(storage')[1]
             /\ req'[r].sends = req[r].sends
             /\ req'[r].result = "e401"
      ]_vars

\* a request settled by a failed refresh, with the storage empty
RefreshFailureReached ==
    \E r \in DataReqs :
        FailedRefresh(r) /\ req[r].result = "e401" /\ storage = EmptyStorage

\* ---- C5 (Spec).  When the refresh call succeeds with a new access token,
\* the store afterwards holds the new access token and the refresh token and
\* user record it held before, and the request is re-issued, once, carrying
\* the new token.
C5_RefreshSuccess ==
    [][\A r \in Reqs :
          (req[r].pc = "refreshing" /\ req'[r].pc = "sent")
          => /\ storage'[ACCESS_TOKEN] = JSON_stringify(Tok(minted + 1))
             /\ storage'[REFRESH_TOKEN] = storage[REFRESH_TOKEN]
             /\ storage'[USER_DATA] = storage[USER_DATA]
             /\ req'[r].sends = 2
             /\ req'[r].hdr = Tok(minted + 1)
      ]_vars

C7_FailedLoginLeavesNothing ==
    [][(/\ op.kind = "login" /\ op.pc = "wait" /\ op'.pc = "idle"
        /\ op.net /\ req[LoginReq].result # "ok")
       => /\ storage' = EmptyStorage
          /\ ~auth'.isAuthenticated
          /\ auth'.user = Null
          /\ op'.surfaced = Message(req[LoginReq].result)
      ]_vars

\* ---- C8 (Spec).  No two requests that were sent with the same access token
\* have a refresh call in flight at the same time.
C8_SingleRefreshInFlight ==
    \A r1, r2 \in Reqs :
        (r1 # r2 /\ req[r1].pc = "refreshing" /\ req[r2].pc = "refreshing")
        => req[r1].hdr # req[r2].hdr

\* ---- C9 (SpecGoals).  When the call of a toggle fails and no other toggle
\* of that goal was made, the goal's is_completed and status are what they
\* were before the toggle, and the hook's error is set.
C9_RollbackRestoresGoal ==
    \A k \in TogIds :
        (/\ tog[k].pc = "rejected"
         /\ \A j \in TogIds \ {k} : tog[j].pc = "new" \/ tog[j].goalId # tog[k].goalId)
        => /\ goals[tog[k].goalId] = tog[k].prev
           /\ goalsError # ""

\* the status a completion flag implies
derivedStatus(isCompleted) == IF isCompleted THEN "completed" ELSE "active"

C11_SuccessAdoptsServerCopy ==
    [][\A k \in TogIds :
          (/\ tog[k].pc = "flight" /\ tog'[k].pc = "resolved"
           /\ \A j \in TogIds \ {k} :
                 tog[j].pc = "flight" => tog[j].goalId # tog[k].goalId)
          => goals'[tog[k].goalId] = remote'[tog[k].goalId]
      ]_vars

C14_CheckFollowsIsLoggedIn ==
    [][(op.kind = "check" /\ op.pc = "run" /\ op'.pc = "idle")
       => LET li == isLoggedIn(storage)
              cached == getUser(li[2])[1]
          IN  /\ ~auth'.isLoading
              /\ li[1] => /\ auth'.isAuthenticated
                          /\ Truthy(auth'.user) /\ auth'.user = cached
              /\ ~li[1] => /\ ~auth'.isAuthenticated
                           /\ auth'.user = Null
      ]_vars

\* ---- C15 (Spec).  Whenever login reports success for a response (access A,
\* refresh R, user U with non-empty id and email), the store holds A, R and
\* U, isLoggedIn() returns true on it, and the controller is authenticated
\* with user U.
C15_LoginSuccessPersists ==
    [][(/\ op.kind = "login" /\ op.pc = "wait" /\ op'.pc = "idle"
        /\ op'.surfaced = ""
        /\ PropId(auth'.user) # "" /\ PropEmail(auth'.user) # "")
       => /\ storage'[ACCESS_TOKEN] = JSON_stringify(Tok(minted + 1))
          /\ storage'[REFRESH_TOKEN] = JSON_stringify(Tok(minted + 2))
          /\ storage'[USER_DATA] = JSON_stringify(auth'.user)
          /\ isLoggedIn(storage')[1]
          /\ auth'.isAuthenticated /\ ~auth'.isLoading
      ]_vars

\* ---- C16 (Spec).  Whenever a request is put on the wire, a request to a
\* non-authentication endpoint carries as credential the access token that
\* the store holds at that moment, and the login request carries none.
C16_BearerIsStoredToken ==
    [][\A r \in Reqs :
          (req'[r].sends = req[r].sends + 1 \/ (req'[r].sends = 1 /\ req[r].pc # "sent"
                                                /\ req'[r].pc = "sent"))
          => IF r = LoginReq
             THEN req'[r].hdr = Null
             ELSE req'[r].hdr = JSON_parse(storage'[ACCESS_TOKEN])
      ]_vars

\* ---- C17 (Spec).  A response that arrives for a request while no refresh
\* token is stored settles the request: no refresh call is started, the
\* request is not re-issued, and the store is left as it was; a refresh call
\* in flight always carries a refresh token.
C17_NoRefreshTokenPropagates ==
    [][\A r \in Reqs :
          /\ (req[r].pc = "sent" /\ req'[r] # req[r] /\ storage[REFRESH_TOKEN] = Null)
             => /\ req'[r].pc = "done"
                /\ req'[r].refreshes = req[r].refreshes
                /\ req'[r].sends = req[r].sends
                /\ storage' = storage
          /\ (req'[r].pc = "refreshing" => Truthy(req'[r].rtok))
      ]_vars

\* a first 401 that found no refresh token stored and was given to the caller
C17_Witness ==
    \E r \in DataReqs :
        /\ req[r].pc = "done" /\ req[r].result = "e401"
        /\ req[r].retry /\ req[r].refreshes = 0 /\ req[r].sends = 1
        /\ storage[REFRESH_TOKEN] = Null

\* ---- C18 (SpecStore).  After any sequence of createGoal, updateGoal and
\* toggleGoalCompletion operations, every goal of the local list and of the
\* persisted list has is_completed true if and only if its status is
\* 'completed'.
C18_CompletedIffStatus ==
    /\ \A g \in DOMAIN goals :
          goals[g].is_completed <=> goals[g].status = "completed"
    /\ \A g \in DOMAIN remote :
          remote[g].is_completed <=> remote[g].status = "completed"

C20_VisibilityToggleProtocol ==
    \A k \in VisIds :
        LET alone == \A j \in VisIds \ {k} :
                        vis[j].pc = "new" \/ vis[j].calendarId # vis[k].calendarId
        IN  /\ (vis[k].pc = "flight" /\ alone)
               => calendars[vis[k].calendarId] = notVisible(vis[k].prev)
            /\ (vis[k].pc = "rejected" /\ alone)
               => /\ calendars[vis[k].calendarId] = vis[k].prev
                  /\ calendarsError # ""

C22_SaveTokensAtomic ==
    [][(/\ op.kind = "login" /\ op.pc = "wait" /\ op'.pc = "idle"
        /\ apiImpl = "real" /\ req[LoginReq].result = "ok"
        /\ storage'[REFRESH_TOKEN] # JSON_stringify(Tok(minted + 2)))
       => /\ op'.surfaced # ""
          /\ ~isLoggedIn(storage')[1]
          /\ ~(/\ storage'[ACCESS_TOKEN] = JSON_stringify(Tok(minted + 1))
               /\ storage'[REFRESH_TOKEN] # Null)
      ]_vars

\* ---- C23 (Spec).  getUser() returns a value only when the stored record
\* has a non-empty id and a non-empty email; when a record is stored that
\* lacks one of them, getUser() returns null, the record is removed and the
\* two tokens stay as they were.
C23_GetUserValidates ==
    LET gu == getUser(storage)
        stored == storage[USER_DATA]
        complete == stored.id # "" /\ stored.email # ""
    IN  /\ Truthy(gu[1]) => complete
        /\ (stored # Null /\ ~complete)
              => /\ gu[1] = Null
                 /\ gu[2][USER_DATA] = Null
                 /\ gu[2][ACCESS_TOKEN] = storage[ACCESS_TOKEN]
                 /\ gu[2][REFRESH_TOKEN] = storage[REFRESH_TOKEN]

\* ---- C24 (Spec).  From the completion of logout until the next login is
\* started, the store holds no access token and no refresh token, whatever
\* the requests do that were in flight when logout started.
C24_NoTokensAfterLogout ==
    (op.kind = "logout" /\ op.pc = "idle")
    => storage[ACCESS_TOKEN] = Null /\ storage[REFRESH_TOKEN] = Null

\* ---- C25 (Spec).  Whenever no controller operation and no request is in
\* flight, a controller with isAuthenticated = true has a store that holds
\* both tokens and a user record with id and email, also after the refresh
\* of a request has failed and cleared the store.
C25_AuthenticatedImpliesStored ==
    (/\ op.pc = "idle"
     /\ \A r \in Reqs : req[r].pc \in {"new", "done"}
     /\ \E r \in DataReqs : FailedRefresh(r)
     /\ auth.isAuthenticated)
    => /\ storage[ACCESS_TOKEN] # Null
       /\ storage[REFRESH_TOKEN] # Null
       /\ storage[USER_DATA] # Null
       /\ storage[USER_DATA].id # "" /\ storage[USER_DATA].email # ""

\* ---- C26 (Spec).  The interceptor never starts a refresh for the login
\* request and never re-issues it, and the step in which the login request
\* receives an error settles it with that error and leaves the store as it
\* is.
C26_Login401Propagates ==
    [][/\ req'[LoginReq].refreshes = 0
       /\ req'[LoginReq].sends <= 1
       /\ (req[LoginReq].pc = "sent" /\ req'[LoginReq].pc # "sent"
             /\ req'[LoginReq].result # "ok")
           => req'[LoginReq].pc = "done" /\ storage' = storage
      ]_vars

\* ---- C27 (Spec).  When the refresh call of a request is answered after a
\* later login has stored its tokens and user (the stored refresh token was
\* minted after the one the interceptor read for the call), the step leaves
\* the stored access token and refresh token as the login stored them.
C27_RefreshKeepsLaterLogin ==
    [][\A r \in Reqs :
          (/\ req[r].pc = "refreshing" /\ req'[r].pc # "refreshing"
           /\ minted' = minted + 1
           /\ storage[REFRESH_TOKEN] # Null /\ storage[USER_DATA] # Null
           /\ storage[REFRESH_TOKEN].tok > req[r].rtok.tok)
          => /\ storage'[ACCESS_TOKEN] = storage[ACCESS_TOKEN]
             /\ storage'[REFRESH_TOKEN] = storage[REFRESH_TOKEN]
      ]_vars

\* ---- C28 (SpecPersist).  Once no createGoal, updateGoal or deleteGoal is
\* in flight, the persisted list reflects every call that resolved and that
\* was the only call made for its goal: a created goal is in the list, a
\* deleted goal is not, and an updated goal is the goal the call read with
\* the updates applied.
C28_NoLostWrite ==
    (\A k \in GopIds : gop[k].pc # "read")
    => \A k \in GopIds :
          (/\ gop[k].pc = "resolved"
           /\ \A j \in GopIds \ {k} :
                 gop[j].pc = "new" \/ gop[j].goalId # gop[k].goalId)
          => CASE gop[k].kind = "create" -> gop[k].goalId \in DOMAIN remote
               [] gop[k].kind = "delete" -> gop[k].goalId \notin DOMAIN remote
               [] OTHER ->
                    /\ gop[k].goalId \in DOMAIN remote
                    /\ remote[gop[k].goalId] =
                          updatedGoal(gop[k].existingGoals[gop[k].goalId],
                                      gop[k].updates)

\* ---- C29 (Spec).  The step in which a re-issued request fails (a second
\* 401 or any other error) settles the request and leaves the store as it
\* is; a step of the interceptor changes the store only when it ends the
\* refresh call of the request, and it removes the three keys only when the
\* refresh call or the save of its token failed (the request is not
\* re-issued).
C29_RetryFailureKeepsStore ==
    [][\A r \in Reqs :
          /\ (/\ req[r].pc = "sent" /\ req[r].sends = 2
               /\ req'[r].pc = "done" /\ req'[r].result # "ok")
             => storage' = storage
          /\ (req'[r] # req[r] /\ op' = op /\ storage' # storage)
             => /\ req[r].pc = "refreshing"
                /\ req'[r].pc = "sent" => storage'[ACCESS_TOKEN] # Null
                /\ storage' = EmptyStorage => req'[r].pc = "done"
      ]_vars

\* a re-issued request has failed with an error other than 401 and the
\* store holds the refreshed access token, the refresh token and the user
C29_Witness ==
    \E r \in DataReqs :
        /\ req[r].pc = "done" /\ req[r].sends = 2 /\ req[r].result = "e500"
        /\ storage[ACCESS_TOKEN] # Null /\ storage[ACCESS_TOKEN].tok > 2
        /\ storage[REFRESH_TOKEN] # Null
        /\ storage[USER_DATA] # Null

\* ---- C30 (SpecNav).  After a login made from the login screen has
\* succeeded, the session state the navigator reads becomes authenticated
\* with a non-null user.
C30_NavigatorSeesLogin ==
    (/\ op.kind = "login" /\ op.pc = "idle"
     /\ auth.isAuthenticated /\ Truthy(auth.user))
        ~> (nav.isAuthenticated /\ Truthy(nav.user))

====
